---- MODULE Spec2Model ----
(***************************************************************************)
(* ZOF (zero of functions) solver: the web solvers of ZOF_Project/app.py   *)
(* and the command-line solvers of ZOF_Project/ZOF_CLI.py, run on the same *)
(* input, and the shared-namespace evaluator safe_eval under two           *)
(* concurrent callers.                                                     *)
(*                                                                         *)
(* Numbers.  Python floats are modelled as integers counting units of      *)
(* 1/Scale (a binary float is an integer count of units in the last place  *)
(* too); sums and differences are exact, products and quotients are        *)
(* rounded to the nearest unit, ties to even, as IEEE-754 does.  round(v,8)*)
(* and the CLI's ":.8f" keep fewer digits than the arithmetic has: in the  *)
(* model they keep whole numbers (multiples of Scale).  The literal 1e10   *)
(* is far outside TLC's 32-bit integers and appears scaled down to         *)
(* DIVERGENCE_LIMIT.                                                       *)
(*                                                                         *)
(* Option values.  Python's None is the empty sequence << >> and a number  *)
(* v is << v >>.                                                           *)
(***************************************************************************)
EXTENDS Integers, Sequences, FiniteSets, TLC

VARIABLES method, func_str, deriv_str, arg1, arg2, tol, max_iter,
          web, cli, math_x, thr

inputs == <<method, func_str, deriv_str, arg1, arg2, tol, max_iter>>
vars == <<method, func_str, deriv_str, arg1, arg2, tol, max_iter,
          web, cli, math_x, thr>>

---------------------------------------------------------------------------
(* Bounds of the model *)

\* units per 1.0 of the number grid
Scale == 2
\* largest max_iter a caller passes
MaxIter == 3
\* callers pass whole numbers -MaxArg .. MaxArg as a, b, x0, x1, delta
MaxArg == 2

---------------------------------------------------------------------------
(* Float arithmetic on the grid *)

Abs(v) == IF v < 0 THEN -v ELSE v

Sign(v) == IF v < 0 THEN -1 ELSE IF v > 0 THEN 1 ELSE 0

\* n/d rounded to the nearest integer, ties to even (d > 0)
RoundDivPos(n, d) ==
    LET q == n \div d
        r == n % d
    IN  IF 2 * r < d THEN q
        ELSE IF 2 * r > d THEN q + 1
        ELSE IF q % 2 = 0 THEN q ELSE q + 1

RoundDiv(n, d) == IF d > 0 THEN RoundDivPos(n, d) ELSE RoundDivPos(-n, -d)

\* x * y.  A float product of two nonzero numbers of ordinary magnitude is
\* never zero (the exponent range absorbs it), so the rounded product keeps
\* at least one unit of its sign.
Mul(x, y) ==
    LET q == RoundDiv(x * y, Scale)
    IN  IF q = 0 THEN Sign(x * y) ELSE q

\* x / y for y # 0
FDiv(x, y) == RoundDiv(x * Scale, y)

\* the number n of the source text (2, 4, ...) on the grid
Num(n) == n * Scale

\* round(v, 8) of app.py and the ":.8f" of ZOF_CLI.py print_row
Round8(v) == RoundDiv(v, Scale) * Scale

---------------------------------------------------------------------------
(* Expressions and the evaluator *)

ExprSq2    == <<"x", "**", "2", "-", "2">>
ExprCaret  == <<"x", "^", "2", "-", "2">>
ExprInv    == <<"1", "/", "x">>
ExprX      == <<"x">>
ExprFive   == <<"5">>
ExprTwoX   == <<"2", "*", "x">>

Exprs == {ExprSq2, ExprCaret, ExprInv, ExprX, ExprFive, ExprTwoX}
DerivExprs == {ExprTwoX, ExprInv}

\* func_str.replace('^', '**')
ReplaceCaret(s) == [k \in DOMAIN s |-> IF s[k] = "^" THEN "**" ELSE s[k]]

\* eval(func_str, {"__builtins__": {}}, allowed_locals) inside try/except:
\* the value, or None on any exception.  x is always a float here, so
\* "x ^ 2 - 2" raises TypeError (^ is xor) and "1/x" raises
\* ZeroDivisionError at 0.0.
PyEval(s, x) ==
    CASE s = ExprSq2   -> << Mul(x, x) - Num(2) >>
      [] s = ExprCaret -> << >>
      [] s = ExprInv   -> IF x = 0 THEN << >> ELSE << FDiv(Num(1), x) >>
      [] s = ExprX     -> << x >>
      [] s = ExprFive  -> << Num(5) >>
      [] s = ExprTwoX  -> << Mul(Num(2), x) >>
      [] OTHER         -> << >>

\* app.py safe_eval, run alone
safe_eval_web(s, x) == PyEval(ReplaceCaret(s), x)

\* ZOF_CLI.py safe_eval, run alone
safe_eval_cli(s, x) == PyEval(s, x)

\* ZOF_CLI.py derive_eval
derive_eval(s, x) == safe_eval_cli(s, x)

---------------------------------------------------------------------------
(* Shared pieces of the twelve solver loops *)

\* the fixed-point safety threshold, 1e10 in the source, on the model's grid
DIVERGENCE_LIMIT == 10 * Scale

\* a loop written "for i in range(max_iter)": indices from 0
range_from_zero(n) == n

\* "for i in range(1, max_iter + 1)": the index of the pass that follows n
\* completed passes
range_at(n) == n + 1

\* the test written with "and" in place of "or"
ConvergedBoth(f, error, t) == Abs(f) < t /\ error < t

\* "abs(fc) < tol or error < tol"
Converged(f, error, t) == Abs(f) < t \/ error < t

\* the sign test written with ">" in place of "<"
SignChangeFlipped(fa, fc) == Mul(fa, fc) > 0

\* "if fa * fc < 0": the root lies in [a, c]
SignChange(fa, fc) == Mul(fa, fc) < 0

\* one iteration record: the web dict {"iter", "root", "func", "error"} and
\* the CLI's printed row alike
Row(i, x, f, error) ==
    [iter |-> i, root |-> Round8(x), func |-> Round8(f), error |-> Round8(error)]

\* the unrounded values of a pass (not program state: kept to state claims)
Raw(x, f, error) == [x |-> x, f |-> f, error |-> error]

Methods == {"bisection", "regula_falsi", "secant", "newton", "fixed_point",
            "mod_secant"}
Bracketing == {"bisection", "regula_falsi"}
OneArg == {"newton", "fixed_point"}

\* what a call has given back so far: nothing while it runs.  For a web
\* solver the fields are the keys of the returned dict (hasError, hasData
\* say which keys it has) or the exception that left the call; for a CLI
\* solver they are what it printed: the rows, the "Error"/"diverging" line
\* (error), the "Converged to root" line (converged, root) and the
\* "Max iterations reached." line (note).
NoRet ==
    [status |-> "running", hasError |-> FALSE, error |-> "", hasData |-> FALSE,
     data |-> << >>, root |-> << >>, converged |-> FALSE, note |-> "",
     exc |-> ""]

\* the locals of one solver call at the top of its body: data = [], root = None
Frame(m, p, q) ==
    [pc      |-> IF m \in Bracketing THEN "start" ELSE "loop",
     a       |-> IF m \in Bracketing THEN p ELSE 0,
     b       |-> IF m \in Bracketing THEN q ELSE 0,
     fa      |-> 0,
     fb      |-> 0,
     prev_c  |-> 0,
     x0      |-> IF m \in Bracketing THEN 0 ELSE p,
     x1      |-> IF m = "secant" THEN q ELSE 0,
     delta   |-> IF m = "mod_secant" THEN q ELSE 0,
     n       |-> 0,
     data    |-> << >>,
     root    |-> << >>,
     hist    |-> << >>,
     sawNone |-> FALSE,
     ret     |-> NoRet]

\* the frame after the call ended with result r
End(w, r) == [w EXCEPT !.pc = "done", !.ret = r]

\* an exception leaves the call
Raised(e) == [NoRet EXCEPT !.status = "raised", !.exc = e]

\* the frame with one more pass begun
Begin(w) == [w EXCEPT !.n = w.n + 1]

\* the frame that saw safe_eval return None
SawNone(w) == [w EXCEPT !.sawNone = TRUE]

---------------------------------------------------------------------------
(* app.py: the web solvers *)

\* return {"error": msg}
ErrorRet(msg) ==
    [NoRet EXCEPT !.status = "returned", !.hasError = TRUE, !.error = msg]

\* return {"data": data, "root": root, "converged": root is not None}
DataRet(data, root) ==
    [NoRet EXCEPT !.status = "returned", !.hasData = TRUE, !.data = data,
                  !.root = root, !.converged = (root # << >>)]

\* data.append({...}) and the convergence test of solve_bisection,
\* solve_regula_falsi, solve_secant, solve_newton and solve_mod_secant:
\* round(f, 8) raises TypeError when f is None; on convergence
\* "root = est; break".  w is the frame with the pass begun.
web_append_test(w, est, fopt, error) ==
    IF fopt = << >>
    THEN End(SawNone(w), Raised("TypeError"))
    ELSE LET w2 == [w EXCEPT !.data = Append(w.data, Row(range_at(w.n - 1), est, fopt[1], error)),
                             !.hist = Append(w.hist, Raw(est, fopt[1], error))]
         IN  IF Converged(fopt[1], error, tol)
             THEN [w2 EXCEPT !.root = <<est>>, !.pc = "break"]
             ELSE w2

\* solve_bisection up to the loop
solve_bisection_enter ==
    /\ method = "bisection" /\ web.pc = "start"
    /\ LET fa == safe_eval_web(func_str, web.a)
           fb == safe_eval_web(func_str, web.b)
       IN  web' = IF fa = << >> \/ fb = << >>
                  THEN End(SawNone(web), ErrorRet("Invalid function or value."))
                  ELSE IF Mul(fa[1], fb[1]) >= 0
                  THEN End(web, ErrorRet("Bisection fails: f(a) and f(b) must have opposite signs."))
                  ELSE [web EXCEPT !.pc = "loop", !.fa = fa[1], !.fb = fb[1]]
    /\ UNCHANGED <<inputs, cli, math_x, thr>>

\* one pass of solve_bisection's loop
solve_bisection_pass ==
    /\ method = "bisection" /\ web.pc = "loop" /\ web.n < max_iter
    /\ LET c == FDiv(web.a + web.b, Num(2))
           fc == safe_eval_web(func_str, c)
           error == Abs(web.b - web.a)
           w == web_append_test(Begin(web), c, fc, error)
       IN  web' = IF w.pc # "loop" THEN w
                  ELSE IF SignChange(w.fa, fc[1])
                  THEN [w EXCEPT !.b = c]
                  ELSE [w EXCEPT !.a = c, !.fa = fc[1]]
    /\ UNCHANGED <<inputs, cli, math_x, thr>>

\* solve_regula_falsi up to the loop: fa * fb with a None raises TypeError
solve_regula_falsi_enter ==
    /\ method = "regula_falsi" /\ web.pc = "start"
    /\ LET fa == safe_eval_web(func_str, web.a)
           fb == safe_eval_web(func_str, web.b)
       IN  web' = IF fa = << >> \/ fb = << >>
                  THEN End(SawNone(web), Raised("TypeError"))
                  ELSE IF Mul(fa[1], fb[1]) >= 0
                  THEN End(web, ErrorRet("Regula Falsi fails: f(a) and f(b) must have opposite signs."))
                  ELSE [web EXCEPT !.pc = "loop", !.fa = fa[1], !.fb = fb[1],
                                   !.prev_c = web.a]
    /\ UNCHANGED <<inputs, cli, math_x, thr>>

\* one pass of solve_regula_falsi's loop
solve_regula_falsi_pass ==
    /\ method = "regula_falsi" /\ web.pc = "loop" /\ web.n < max_iter
    /\ IF web.fb - web.fa = 0
       THEN web' = End(Begin(web), Raised("ZeroDivisionError"))
       ELSE LET c == FDiv(Mul(web.a, web.fb) - Mul(web.b, web.fa), web.fb - web.fa)
                fc == safe_eval_web(func_str, c)
                error == Abs(c - web.prev_c)
                w == web_append_test(Begin(web), c, fc, error)
            IN  web' = IF w.pc # "loop" THEN w
                       ELSE IF SignChange(w.fa, fc[1])
                       THEN [w EXCEPT !.b = c, !.fb = fc[1], !.prev_c = c]
                       ELSE [w EXCEPT !.a = c, !.fa = fc[1], !.prev_c = c]
    /\ UNCHANGED <<inputs, cli, math_x, thr>>

\* one pass of solve_secant's loop
solve_secant_pass ==
    /\ method = "secant" /\ web.pc = "loop" /\ web.n < max_iter
    /\ LET f0 == safe_eval_web(func_str, web.x0)
           f1 == safe_eval_web(func_str, web.x1)
       IN  IF f0 = << >> \/ f1 = << >>
           THEN web' = End(SawNone(Begin(web)), ErrorRet("Eval error"))
           ELSE IF f1[1] - f0[1] = 0
           THEN web' = End(Begin(web), ErrorRet("Division by zero (f1 - f0 = 0)"))
           ELSE LET x2 == web.x1 - FDiv(Mul(f1[1], web.x1 - web.x0), f1[1] - f0[1])
                    f2 == safe_eval_web(func_str, x2)
                    error == Abs(x2 - web.x1)
                    w == web_append_test(Begin(web), x2, f2, error)
                IN  web' = IF w.pc # "loop" THEN w
                           ELSE [w EXCEPT !.x0 = web.x1, !.x1 = x2]
    /\ UNCHANGED <<inputs, cli, math_x, thr>>

\* one pass of solve_newton's loop
solve_newton_pass ==
    /\ method = "newton" /\ web.pc = "loop" /\ web.n < max_iter
    /\ LET f0 == safe_eval_web(func_str, web.x0)
           f_prime0 == safe_eval_web(deriv_str, web.x0)
       IN  IF f_prime0 = << 0 >>
           THEN web' = End(IF f0 = << >> THEN SawNone(Begin(web)) ELSE Begin(web),
                           ErrorRet("Derivative is zero. Method fails."))
           ELSE IF f0 = << >> \/ f_prime0 = << >>
           THEN web' = End(SawNone(Begin(web)), ErrorRet("Eval error"))
           ELSE LET x1 == web.x0 - FDiv(f0[1], f_prime0[1])
                    f1 == safe_eval_web(func_str, x1)
                    error == Abs(x1 - web.x0)
                    w == web_append_test(Begin(web), x1, f1, error)
                IN  web' = IF w.pc # "loop" THEN w
                           ELSE [w EXCEPT !.x0 = x1]
    /\ UNCHANGED <<inputs, cli, math_x, thr>>

\* one pass of solve_fixed_point's loop
solve_fixed_point_pass ==
    /\ method = "fixed_point" /\ web.pc = "loop" /\ web.n < max_iter
    /\ LET x1 == safe_eval_web(func_str, web.x0)
           w == Begin(web)
       IN  IF x1 = << >>
           THEN web' = End(SawNone(w), ErrorRet("Eval error"))
           ELSE LET error == Abs(x1[1] - web.x0)
                    w2 == [w EXCEPT !.data = Append(w.data, Row(range_at(web.n), x1[1], x1[1], error)),
                                    !.hist = Append(w.hist, Raw(x1[1], x1[1], error))]
                IN  web' = IF error < tol
                           THEN [w2 EXCEPT !.root = x1, !.pc = "break"]
                           ELSE IF x1[1] > DIVERGENCE_LIMIT
                           THEN End([w2 EXCEPT !.x0 = x1[1]], ErrorRet("Divergence detected."))
                           ELSE [w2 EXCEPT !.x0 = x1[1]]
    /\ UNCHANGED <<inputs, cli, math_x, thr>>

\* one pass of solve_mod_secant's loop: f0_delta - f0 with a None raises
\* TypeError
solve_mod_secant_pass ==
    /\ method = "mod_secant" /\ web.pc = "loop" /\ web.n < max_iter
    /\ LET f0 == safe_eval_web(func_str, web.x0)
           f0_delta == safe_eval_web(func_str, web.x0 + Mul(web.delta, web.x0))
       IN  IF f0 = << >> \/ f0_delta = << >>
           THEN web' = End(SawNone(Begin(web)), Raised("TypeError"))
           ELSE IF f0_delta[1] - f0[1] = 0
           THEN web' = End(Begin(web), ErrorRet("Division by zero"))
           ELSE LET denom == f0_delta[1] - f0[1]
                    x1 == web.x0 - FDiv(Mul(Mul(web.delta, web.x0), f0[1]), denom)
                    f1 == safe_eval_web(func_str, x1)
                    error == Abs(x1 - web.x0)
                    w == web_append_test(Begin(web), x1, f1, error)
                IN  web' = IF w.pc # "loop" THEN w
                           ELSE [w EXCEPT !.x0 = x1]
    /\ UNCHANGED <<inputs, cli, math_x, thr>>

\* the return statement after the loop, reached by break or by the end of
\* range(1, max_iter + 1), the same in all six web solvers
solve_return ==
    /\ \/ web.pc = "break"
       \/ web.pc = "loop" /\ web.n >= max_iter
    /\ web' = End(web, DataRet(web.data, web.root))
    /\ UNCHANGED <<inputs, cli, math_x, thr>>

---------------------------------------------------------------------------
(* ZOF_CLI.py: the command-line solvers.  A CLI solver returns nothing; what
   it gives back is what it printed. *)

\* the call ended having printed the rows of w and then what r says
CliEnd(w, r) == End(w, [r EXCEPT !.hasData = TRUE, !.data = w.data])

\* print("Error: ...") or the divergence line, then return
CliError(msg) ==
    [NoRet EXCEPT !.status = "returned", !.hasError = TRUE, !.error = msg]

\* a bare return with nothing printed
CliSilent == [NoRet EXCEPT !.status = "returned"]

\* print(f"\nConverged to root: {c:.8f} after {i} iterations."), then return
CliConverged(c) ==
    [NoRet EXCEPT !.status = "returned", !.converged = TRUE, !.root = <<Round8(c)>>]

\* print("\nMax iterations reached.")
CliMaxIter ==
    [NoRet EXCEPT !.status = "returned", !.note = "Max iterations reached."]

\* print_row(i, est, f, error) and the convergence test of bisection,
\* regula_falsi, secant, newton_raphson and modified_secant: formatting None
\* with "<18.8f" raises TypeError.  w is the frame with the pass begun.
cli_print_test(w, est, fopt, error) ==
    IF fopt = << >>
    THEN CliEnd(SawNone(w), Raised("TypeError"))
    ELSE LET w2 == [w EXCEPT !.data = Append(w.data, Row(range_at(w.n - 1), est, fopt[1], error)),
                             !.hist = Append(w.hist, Raw(est, fopt[1], error))]
         IN  IF Converged(fopt[1], error, tol)
             THEN CliEnd([w2 EXCEPT !.root = <<est>>], CliConverged(est))
             ELSE w2

\* bisection up to the loop
bisection_enter ==
    /\ method = "bisection" /\ cli.pc = "start"
    /\ LET fa == safe_eval_cli(func_str, cli.a)
           fb == safe_eval_cli(func_str, cli.b)
       IN  cli' = IF fa = << >> \/ fb = << >>
                  THEN CliEnd(SawNone(cli), CliError("Error: Could not evaluate function."))
                  ELSE IF Mul(fa[1], fb[1]) >= 0
                  THEN CliEnd(cli, CliError("Error: f(a) and f(b) must have opposite signs."))
                  ELSE [cli EXCEPT !.pc = "loop", !.fa = fa[1], !.fb = fb[1]]
    /\ UNCHANGED <<inputs, web, math_x, thr>>

\* one pass of bisection's loop
bisection_pass ==
    /\ method = "bisection" /\ cli.pc = "loop" /\ cli.n < max_iter
    /\ LET c == FDiv(cli.a + cli.b, Num(2))
           fc == safe_eval_cli(func_str, c)
           error == Abs(cli.b - cli.a)
           w == cli_print_test(Begin(cli), c, fc, error)
       IN  cli' = IF w.pc # "loop" THEN w
                  ELSE IF SignChange(w.fa, fc[1])
                  THEN [w EXCEPT !.b = c]
                  ELSE [w EXCEPT !.a = c, !.fa = fc[1]]
    /\ UNCHANGED <<inputs, web, math_x, thr>>

\* regula_falsi up to the loop: fa * fb with a None raises TypeError
regula_falsi_enter ==
    /\ method = "regula_falsi" /\ cli.pc = "start"
    /\ LET fa == safe_eval_cli(func_str, cli.a)
           fb == safe_eval_cli(func_str, cli.b)
       IN  cli' = IF fa = << >> \/ fb = << >>
                  THEN CliEnd(SawNone(cli), Raised("TypeError"))
                  ELSE IF Mul(fa[1], fb[1]) >= 0
                  THEN CliEnd(cli, CliError("Error: f(a) and f(b) must have opposite signs."))
                  ELSE [cli EXCEPT !.pc = "loop", !.fa = fa[1], !.fb = fb[1],
                                   !.prev_c = cli.a]
    /\ UNCHANGED <<inputs, web, math_x, thr>>

\* one pass of regula_falsi's loop
regula_falsi_pass ==
    /\ method = "regula_falsi" /\ cli.pc = "loop" /\ cli.n < max_iter
    /\ IF cli.fb - cli.fa = 0
       THEN cli' = CliEnd(Begin(cli), Raised("ZeroDivisionError"))
       ELSE LET curr_c == FDiv(Mul(cli.a, cli.fb) - Mul(cli.b, cli.fa), cli.fb - cli.fa)
                fc == safe_eval_cli(func_str, curr_c)
                error == Abs(curr_c - cli.prev_c)
                w == cli_print_test(Begin(cli), curr_c, fc, error)
            IN  cli' = IF w.pc # "loop" THEN w
                       ELSE IF SignChange(w.fa, fc[1])
                       THEN [w EXCEPT !.b = curr_c, !.fb = fc[1], !.prev_c = curr_c]
                       ELSE [w EXCEPT !.a = curr_c, !.fa = fc[1], !.prev_c = curr_c]
    /\ UNCHANGED <<inputs, web, math_x, thr>>

\* one pass of secant's loop: f1 - f0 with a None raises TypeError
secant_pass ==
    /\ method = "secant" /\ cli.pc = "loop" /\ cli.n < max_iter
    /\ LET f0 == safe_eval_cli(func_str, cli.x0)
           f1 == safe_eval_cli(func_str, cli.x1)
       IN  IF f0 = << >> \/ f1 = << >>
           THEN cli' = CliEnd(SawNone(Begin(cli)), Raised("TypeError"))
           ELSE IF f1[1] - f0[1] = 0
           THEN cli' = CliEnd(Begin(cli), CliError("Error: Division by zero (f(x1) - f(x0) = 0)."))
           ELSE LET x2 == cli.x1 - FDiv(Mul(f1[1], cli.x1 - cli.x0), f1[1] - f0[1])
                    f2 == safe_eval_cli(func_str, x2)
                    error == Abs(x2 - cli.x1)
                    w == cli_print_test(Begin(cli), x2, f2, error)
                IN  cli' = IF w.pc # "loop" THEN w
                           ELSE [w EXCEPT !.x0 = cli.x1, !.x1 = x2]
    /\ UNCHANGED <<inputs, web, math_x, thr>>

\* one pass of newton_raphson's loop: f0 / f_prime0 with a None raises
\* TypeError
newton_raphson_pass ==
    /\ method = "newton" /\ cli.pc = "loop" /\ cli.n < max_iter
    /\ LET f0 == safe_eval_cli(func_str, cli.x0)
           f_prime0 == derive_eval(deriv_str, cli.x0)
       IN  IF f_prime0 = << 0 >>
           THEN cli' = CliEnd(IF f0 = << >> THEN SawNone(Begin(cli)) ELSE Begin(cli),
                              CliError("Error: Derivative is zero. Method fails."))
           ELSE IF f0 = << >> \/ f_prime0 = << >>
           THEN cli' = CliEnd(SawNone(Begin(cli)), Raised("TypeError"))
           ELSE LET x1 == cli.x0 - FDiv(f0[1], f_prime0[1])
                    f1 == safe_eval_cli(func_str, x1)
                    error == Abs(x1 - cli.x0)
                    w == cli_print_test(Begin(cli), x1, f1, error)
                IN  cli' = IF w.pc # "loop" THEN w
                           ELSE [w EXCEPT !.x0 = x1]
    /\ UNCHANGED <<inputs, web, math_x, thr>>

\* one pass of fixed_point's loop
fixed_point_pass ==
    /\ method = "fixed_point" /\ cli.pc = "loop" /\ cli.n < max_iter
    /\ LET x1 == safe_eval_cli(func_str, cli.x0)
           w == Begin(cli)
       IN  IF x1 = << >>
           THEN cli' = CliEnd(SawNone(w), CliSilent)
           ELSE LET error == Abs(x1[1] - cli.x0)
                    w2 == [w EXCEPT !.data = Append(w.data, Row(range_at(cli.n), x1[1], x1[1], error)),
                                    !.hist = Append(w.hist, Raw(x1[1], x1[1], error))]
                IN  cli' = IF error < tol
                           THEN CliEnd([w2 EXCEPT !.root = x1], CliConverged(x1[1]))
                           ELSE IF x1[1] > DIVERGENCE_LIMIT
                           THEN CliEnd([w2 EXCEPT !.x0 = x1[1]],
                                       CliError("Values getting too large. Method likely diverging."))
                           ELSE [w2 EXCEPT !.x0 = x1[1]]
    /\ UNCHANGED <<inputs, web, math_x, thr>>

\* one pass of modified_secant's loop: f0_delta - f0 with a None raises
\* TypeError
modified_secant_pass ==
    /\ method = "mod_secant" /\ cli.pc = "loop" /\ cli.n < max_iter
    /\ LET f0 == safe_eval_cli(func_str, cli.x0)
           f0_delta == safe_eval_cli(func_str, cli.x0 + Mul(cli.delta, cli.x0))
       IN  IF f0 = << >> \/ f0_delta = << >>
           THEN cli' = CliEnd(SawNone(Begin(cli)), Raised("TypeError"))
           ELSE IF f0_delta[1] - f0[1] = 0
           THEN cli' = CliEnd(Begin(cli), CliError("Error: Division by zero in modified secant."))
           ELSE LET denom == f0_delta[1] - f0[1]
                    x1 == cli.x0 - FDiv(Mul(Mul(cli.delta, cli.x0), f0[1]), denom)
                    f1 == safe_eval_cli(func_str, x1)
                    error == Abs(x1 - cli.x0)
                    w == cli_print_test(Begin(cli), x1, f1, error)
                IN  cli' = IF w.pc # "loop" THEN w
                           ELSE [w EXCEPT !.x0 = x1]
    /\ UNCHANGED <<inputs, web, math_x, thr>>

\* print("\nMax iterations reached.") after the loop, the same in all six
\* CLI solvers
cli_max_iterations ==
    /\ cli.pc = "loop" /\ cli.n >= max_iter
    /\ cli' = CliEnd(cli, CliMaxIter)
    /\ UNCHANGED <<inputs, web, math_x, thr>>

---------------------------------------------------------------------------
(* safe_eval under two concurrent callers of one process (two web requests
   served by threads): allowed_locals is math.__dict__ itself, so
   allowed_locals['x'] = x writes the one shared entry 'x' and eval reads it
   back. *)

Threads == {1, 2}

EvalArgs == {Num(k) : k \in 0 .. MaxArg}
EvalExprs == {ExprSq2, ExprInv, ExprFive}

IdleThread == [pc |-> "idle", func_str |-> ExprX, x |-> 0, result |-> << >>]

\* a caller enters safe_eval(func_str, x)
safe_eval_call(t) ==
    /\ thr[t].pc \in {"idle", "returned"}
    /\ \E s \in EvalExprs, x \in EvalArgs :
          thr' = [thr EXCEPT ![t] = [pc |-> "called", func_str |-> s, x |-> x,
                                     result |-> << >>]]
    /\ UNCHANGED <<inputs, web, cli, math_x>>

\* allowed_locals['x'] = x
safe_eval_bind(t) ==
    /\ thr[t].pc = "called"
    /\ math_x' = << thr[t].x >>
    /\ thr' = [thr EXCEPT ![t].pc = "bound"]
    /\ UNCHANGED <<inputs, web, cli>>

\* return eval(func_str.replace('^', '**'), {"__builtins__": {}}, allowed_locals):
\* the name x resolves to whatever math.__dict__['x'] holds now
safe_eval_eval(t) ==
    /\ thr[t].pc = "bound"
    /\ thr' = [thr EXCEPT ![t].pc = "returned",
                          ![t].result = PyEval(ReplaceCaret(thr[t].func_str), math_x[1])]
    /\ UNCHANGED <<inputs, web, cli, math_x>>

---------------------------------------------------------------------------
(* Specifications *)

Args == {Num(k) : k \in -MaxArg .. MaxArg}

\* tol as the caller passes it: positive is expected, nothing enforces it
Tols == {0, 1, Scale}

\* one input, handed to the web solver and to the CLI solver of the method
Init ==
    /\ method \in Methods
    /\ func_str \in Exprs
    /\ deriv_str \in IF method = "newton" THEN DerivExprs ELSE {ExprTwoX}
    /\ arg1 \in Args
    /\ arg2 \in IF method \in OneArg THEN {0} ELSE Args
    /\ tol \in Tols
    /\ max_iter \in 1 .. MaxIter
    /\ web = Frame(method, arg1, arg2)
    /\ cli = Frame(method, arg1, arg2)
    /\ math_x = << >>
    /\ thr = [t \in Threads |-> IdleThread]

Next ==
    \/ solve_bisection_enter
    \/ solve_bisection_pass
    \/ solve_regula_falsi_enter
    \/ solve_regula_falsi_pass
    \/ solve_secant_pass
    \/ solve_newton_pass
    \/ solve_fixed_point_pass
    \/ solve_mod_secant_pass
    \/ solve_return
    \/ bisection_enter
    \/ bisection_pass
    \/ regula_falsi_enter
    \/ regula_falsi_pass
    \/ secant_pass
    \/ newton_raphson_pass
    \/ fixed_point_pass
    \/ modified_secant_pass
    \/ cli_max_iterations

Spec == Init /\ [][Next]_vars

\* two threads of one process calling safe_eval; no solver runs
InitEval ==
    /\ method = "bisection"
    /\ func_str = ExprX
    /\ deriv_str = ExprTwoX
    /\ arg1 = 0
    /\ arg2 = 0
    /\ tol = 1
    /\ max_iter = 1
    /\ web = End(Frame("bisection", 0, 0), NoRet)
    /\ cli = End(Frame("bisection", 0, 0), NoRet)
    /\ math_x = << >>
    /\ thr = [t \in Threads |-> IdleThread]

NextEval ==
    \E t \in Threads :
        \/ safe_eval_call(t)
        \/ safe_eval_bind(t)
        \/ safe_eval_eval(t)

SpecEval == InitEval /\ [][NextEval]_vars

---------------------------------------------------------------------------
(* Reading a finished call *)

Last(q) == q[Len(q)]

\* the failure a message names
FailureKind(msg) ==
    CASE msg \in {"Invalid function or value.", "Eval error",
                  "Error: Could not evaluate function."} -> "evaluation"
      [] msg \in {"Bisection fails: f(a) and f(b) must have opposite signs.",
                  "Regula Falsi fails: f(a) and f(b) must have opposite signs.",
                  "Error: f(a) and f(b) must have opposite signs."} -> "precondition"
      [] msg \in {"Division by zero (f1 - f0 = 0)", "Division by zero",
                  "Error: Division by zero (f(x1) - f(x0) = 0).",
                  "Error: Division by zero in modified secant."} -> "division by zero"
      [] msg \in {"Derivative is zero. Method fails.",
                  "Error: Derivative is zero. Method fails."} -> "derivative is zero"
      [] msg \in {"Divergence detected.",
                  "Values getting too large. Method likely diverging."} -> "divergence"
      [] OTHER -> "other"

\* the terminal outcome of a web call: a dict with data and no root is
\* exhaustion
WebKind(r) ==
    IF r.status = "raised" THEN "exception"
    ELSE IF r.converged THEN "converged"
    ELSE IF r.hasError THEN FailureKind(r.error)
    ELSE "exhausted"

\* the terminal outcome of a CLI call: the only return that prints nothing
\* is fixed_point's after safe_eval gave None
CliKind(r) ==
    IF r.status = "raised" THEN "exception"
    ELSE IF r.converged THEN "converged"
    ELSE IF r.hasError THEN FailureKind(r.error)
    ELSE IF r.note # "" THEN "exhausted"
    ELSE "evaluation"

\* the convergence criterion on the unrounded values h of a pass
Criterion(h) ==
    IF method = "fixed_point" THEN h.error < tol
    ELSE (Abs(h.f) < tol \/ h.error < tol)

\* iteration indices 1, 2, ..., Len(d), at most max_iter of them
Contiguous(d) == Len(d) <= max_iter /\ \A k \in 1 .. Len(d) : d[k].iter = k

---------------------------------------------------------------------------
(* Claims *)

\* C1: whenever the evaluator returned None at a point of use, the web
\* solver call returns a result that carries a failure description; no
\* exception leaves the call.
C1_FailureIsReturned ==
    (web.pc = "done" /\ web.sawNone) =>
        (web.ret.status = "returned" /\ web.ret.hasError /\ web.ret.error # "")

\* C2: a web solver that stops at iteration k > 1 on an evaluation failure,
\* a singularity or divergence returns converged = false, a failure
\* description and every record appended before the failure.
C2_PartialTraceKept ==
    (web.pc = "done" /\ web.n > 1 /\ web.ret.hasError) =>
        (/\ ~web.ret.converged
         /\ web.ret.error # ""
         /\ web.ret.hasData
         /\ web.ret.data = web.data)

\* C3: under every interleaving of two concurrent safe_eval calls, each
\* call returns what it returns when run alone.
C3_EvalIsolated ==
    \A t \in Threads :
        thr[t].pc = "returned" =>
            thr[t].result = safe_eval_web(thr[t].func_str, thr[t].x)

\* C4: in fixed-point iteration, a pass whose iterate x1 has magnitude above
\* the threshold, positive or negative, and on which the convergence test
\* did not fire, ends the run with the divergence failure.
C4_DivergenceStops ==
    \A fr \in {web, cli} :
        (/\ method = "fixed_point"
         /\ fr.hist # << >>
         /\ Abs(Last(fr.hist).x) > DIVERGENCE_LIMIT
         /\ ~(Last(fr.hist).error < tol)) =>
            (/\ fr.pc = "done"
             /\ fr.ret.hasError
             /\ FailureKind(fr.ret.error) = "divergence")

\* C5: a web solver whose loop ran all max_iter passes with no convergence
\* and no failure returns converged = false, no root, all max_iter records
\* and a "maximum iterations reached" description.
C5_ExhaustionDescribed ==
    (web.pc = "done" /\ WebKind(web.ret) = "exhausted") =>
        (/\ ~web.ret.converged
         /\ web.ret.root = << >>
         /\ Len(web.ret.data) = max_iter
         /\ (web.ret.note # "" \/ web.ret.error # ""))

\* C6: on every input the CLI solver and the web solver produce the same
\* iteration records and end in the same terminal outcome, with the same
\* root when they converge.
C6_FrontEndsAgree ==
    (web.pc = "done" /\ cli.pc = "done") =>
        (/\ web.data = cli.data
         /\ WebKind(web.ret) = CliKind(cli.ret)
         /\ (web.ret.converged => <<Round8(web.ret.root[1])>> = cli.ret.root))

\* C7: the iteration indices of every trace, while it is built and when it
\* is returned or printed, are exactly 1, 2, ..., k with k <= max_iter, and
\* no record is appended once convergence, a failure or the cap ended the
\* loop.
C7_TraceIndices ==
    /\ [](/\ Contiguous(web.data) /\ Contiguous(cli.data)
          /\ Contiguous(web.ret.data) /\ Contiguous(cli.ret.data)
          /\ Len(web.data) <= web.n /\ Len(cli.data) <= cli.n
          /\ (web.ret.hasData => web.ret.data = web.data)
          /\ (cli.ret.hasData => cli.ret.data = cli.data))
    /\ [][/\ (web.pc \in {"break", "done"} => web'.data = web.data)
          /\ (cli.pc = "done" => cli'.data = cli.data)
          /\ Len(web'.data) <= Len(web.data) + 1
          /\ Len(cli'.data) <= Len(cli.data) + 1]_vars

\* a returned web trace of several records, and a CLI run that ended after
\* printing several rows
C7_Witness ==
    /\ web.pc = "done" /\ web.ret.hasData /\ Len(web.ret.data) >= 2
    /\ cli.pc = "done" /\ Len(cli.ret.data) >= 2

\* the bracket a pass starts from: the tracked f(a) and f(b) have opposite
\* signs, and so have the tracked f(a) and the function at the tracked b
BracketHolds(fr, fb_now) ==
    /\ Mul(fr.fa, fr.fb) < 0
    /\ fb_now # << >>
    /\ Mul(fr.fa, fb_now[1]) < 0

AtPassStart(fr) == method \in Bracketing /\ fr.pc = "loop" /\ fr.n < max_iter

ConvergedIffCriterion(fr, root) ==
    fr.pc = "done" =>
        /\ fr.ret.converged <=> (fr.hist # << >> /\ Criterion(Last(fr.hist)))
        /\ fr.ret.converged =>
              /\ fr.ret.root = <<root>>
              /\ Len(fr.ret.data) = Len(fr.hist)
              /\ Last(fr.ret.data).root = Round8(Last(fr.hist).x)
              /\ \A k \in 1 .. Len(fr.hist) - 1 : ~Criterion(fr.hist[k])

\* C9: a solver reports convergence exactly when, on the pass that ended
\* the run, |f(estimate)| < tol or error < tol held (error < tol alone for
\* fixed-point); the returned root is then the estimate of the last record
\* and the criterion held on no earlier pass.
C9_ConvergedIffCriterion ==
    /\ ConvergedIffCriterion(web, IF web.hist = << >> THEN 0 ELSE Last(web.hist).x)
    /\ ConvergedIffCriterion(cli, IF cli.hist = << >> THEN 0 ELSE Round8(Last(cli.hist).x))

\* a web run that converged on its second or a later pass
C9_Witness ==
    web.pc = "done" /\ web.ret.converged /\ Len(web.hist) >= 2

\* C10: every solver call ends in exactly one of convergence, a reported
\* failure or exhaustion, after at most max_iter loop passes.
C10_EndsInOutcome ==
    \A fr \in {web, cli} :
        fr.pc = "done" =>
            (fr.ret.status = "returned" /\ fr.n <= max_iter)

====
